---------------------------- MODULE Spec2Model ----------------------------
(***************************************************************************)
(* A model of app.py, the "Chat with MySQL" assistant: the query validator,*)
(* the query executor, the two-stage chain of get_response, the Connect    *)
(* handler and the chat-input handler of the Streamlit script.             *)
(*                                                                         *)
(* Texts are sequences of one-character strings, so that strip, replace,   *)
(* upper/lower, startswith and "in" are computed character by character,   *)
(* as Python computes them.  The lexer accepts no grave accent inside a    *)
(* string, so that one character is written "GRAVE"; the emoji that ends   *)
(* the canned reply is written "U+1F60A".                                  *)
(***************************************************************************)
EXTENDS Integers, Sequences, FiniteSets

VARIABLES
    db,            \* st.session_state.db: NoDb, or the stored connection handle
    chat_history,  \* st.session_state.chat_history: sequence of [role, content]
    api_key,       \* whether the environment holds a non-empty GROQ_API_KEY
    shown,         \* what the last handler rendered: sequence of [kind, text]
    calls,         \* the collaborator calls made by the last handler, in order
    schema,        \* the database side: schema version behind each handle
    last,          \* the input of the last handler run
    vin,           \* validator harness: the raw text under validation
    vout           \* validator harness: the last application and its outcome

vars == <<db, chat_history, api_key, shown, calls, schema, last, vin, vout>>

-----------------------------------------------------------------------------
(* Python str operations, on sequences of characters.                      *)

LowerLetters == <<"a","b","c","d","e","f","g","h","i","j","k","l","m","n","o","p","q","r","s","t","u","v","w","x","y","z">>

UpperLetters == <<"A","B","C","D","E","F","G","H","I","J","K","L","M","N","O","P","Q","R","S","T","U","V","W","X","Y","Z">>

Letters == 1..Len(LowerLetters)

\* str.upper() on one character
UpperCh(ch) ==
    IF \E i \in Letters : LowerLetters[i] = ch
    THEN UpperLetters[CHOOSE i \in Letters : LowerLetters[i] = ch]
    ELSE ch

\* str.lower() on one character
LowerCh(ch) ==
    IF \E i \in Letters : UpperLetters[i] = ch
    THEN LowerLetters[CHOOSE i \in Letters : UpperLetters[i] = ch]
    ELSE ch

Upper(s) == [i \in 1..Len(s) |-> UpperCh(s[i])]

Lower(s) == [i \in 1..Len(s) |-> LowerCh(s[i])]

\* the characters str.strip() removes
IsSpace(ch) == ch \in {" ", "\t", "\n", "\r"}

RECURSIVE LStrip(_)
LStrip(s) == IF s # <<>> /\ IsSpace(Head(s)) THEN LStrip(Tail(s)) ELSE s

RECURSIVE RStrip(_)
RStrip(s) ==
    IF s # <<>> /\ IsSpace(s[Len(s)]) THEN RStrip(SubSeq(s, 1, Len(s) - 1)) ELSE s

\* str.strip()
Strip(s) == RStrip(LStrip(s))

\* str.startswith(p)
StartsWith(s, p) == Len(s) >= Len(p) /\ SubSeq(s, 1, Len(p)) = p

\* str.replace(old, new): left to right, non-overlapping (old is never empty here)
RECURSIVE Replace(_, _, _)
Replace(s, old, new) ==
    IF s = <<>> THEN <<>>
    ELSE IF StartsWith(s, old)
         THEN new \o Replace(SubSeq(s, Len(old) + 1, Len(s)), old, new)
         ELSE <<Head(s)>> \o Replace(Tail(s), old, new)

\* p in s
Contains(s, p) ==
    \E i \in 0..(Len(s) - Len(p)) : SubSeq(s, i + 1, i + Len(p)) = p

\* the outcome of a call: a returned value, or a raised exception with its str(e)
Ok(v) == [raised |-> FALSE, val |-> v]

Raise(m) == [raised |-> TRUE, val |-> m]

-----------------------------------------------------------------------------
(* validate_sql_query                                                      *)

valid_keywords ==
    << <<"S","E","L","E","C","T">>, <<"I","N","S","E","R","T">>, <<"U","P","D","A","T","E">>, <<"D","E","L","E","T","E">>,
       <<"C","R","E","A","T","E">>, <<"D","R","O","P">>, <<"A","L","T","E","R">>, <<"W","I","T","H">> >>

FenceSql == <<"GRAVE","GRAVE","GRAVE","s","q","l">>

Fence == <<"GRAVE","GRAVE","GRAVE">>

InvalidPrefix == <<"I","n","v","a","l","i","d"," ","S","Q","L"," ","q","u","e","r","y"," ","g","e","n","e","r","a","t","e","d",":"," ">>

\* faulty variant: the keyword test without upper()
validate_case_sensitive(query) ==
    LET q == Strip(Replace(Replace(Strip(query), FenceSql, <<>>), Fence, <<>>))
    IN  IF ~ \E k \in 1..Len(valid_keywords) : StartsWith(q, valid_keywords[k])
        THEN Raise(InvalidPrefix \o q)
        ELSE Ok(q)

validate_sql_query(query) ==
    LET q1 == Strip(query)
        q2 == Strip(Replace(Replace(q1, FenceSql, <<>>), Fence, <<>>))
    IN  IF ~ \E k \in 1..Len(valid_keywords) : StartsWith(Upper(q2), valid_keywords[k])
        THEN Raise(InvalidPrefix \o q2)
        ELSE Ok(q2)

-----------------------------------------------------------------------------
(* Bounds and the inputs the environment supplies.                         *)

\* user messages handled in one session
MaxTurns == 2

\* pieces concatenated into one raw text handed to the validator harness
MaxPieces == 3

NoDb == "none"

NoText == <<>>

\* the handles init_database can return
Handles == {"h1", "h2"}

\* what the user types into the chat input
UserQueries ==
    { <<"t","h","a","n","k","s","!">>, <<"h","o","w"," ","m","a","n","y"," ","u","s","e","r","s"," ","a","r","e"," ","t","h","e","r","e","?">>, <<"L","i","s","t"," ","t","h","e"," ","B","O","O","K","S">> }

\* what the Generation model call can return
GenTexts ==
    { <<"S","E","L","E","C","T"," ","C","O","U","N","T","(","*",")"," ","F","R","O","M"," ","u","s","e","r","s",";">>,
      <<"GRAVE","GRAVE","GRAVE","s","q","l","\n","d","r","o","p"," ","t","a","b","l","e"," ","u","s","e","r","s","\n","GRAVE","GRAVE","GRAVE">>,
      <<"GRAVE","GRAVE","GRAVE","\n","I"," ","c","a","n","n","o","t"," ","a","n","s","w","e","r"," ","t","h","a","t","\n","GRAVE","GRAVE","GRAVE">> }

\* what the Synthesis model call can return
SynTexts == { <<"T","h","e","r","e"," ","a","r","e"," ","5"," ","u","s","e","r","s",".">> }

\* str(e) of a failing model call, schema fetch, db.run and ChatGroq construction
LlmErr == <<"r","a","t","e"," ","l","i","m","i","t">>

SchemaErr == <<"l","o","s","t"," ","c","o","n","n","e","c","t","i","o","n">>

DbErr == <<"(","1","1","4","6",")"," ","T","a","b","l","e"," ","'","s","h","o","p",".","u","s","e","r","s","'"," ","d","o","e","s","n","'","t"," ","e","x","i","s","t">>

ConstructErr == <<"i","n","v","a","l","i","d"," ","c","l","i","e","n","t"," ","o","p","t","i","o","n","s">>

\* what db.run returns on success
RunResult == <<"[","(","5",",",")","]">>

\* str(e) of a failing init_database
ConnErrors ==
    { <<"1","0","4","9"," ","(","4","2","0","0","0",")",":"," ","U","n","k","n","o","w","n"," ","d","a","t","a","b","a","s","e"," ","'","s","h","o","p","'">>,
      <<"1","0","4","5"," ","(","2","8","0","0","0",")",":"," ","A","c","c","e","s","s"," ","d","e","n","i","e","d"," ","f","o","r"," ","u","s","e","r"," ","'","r","o","o","t","'","@","'","l","o","c","a","l","h","o","s","t","'">>,
      <<"2","0","0","3"," ","(","H","Y","0","0","0",")",":"," ","C","a","n","'","t"," ","c","o","n","n","e","c","t"," ","t","o"," ","M","y","S","Q","L"," ","s","e","r","v","e","r"," ","o","n"," ","'","l","o","c","a","l","h","o","s","t",":","3","3","0","6","'">>,
      <<"2","0","0","3"," ","(","H","Y","0","0","0",")",":"," ","C","a","n","'","t"," ","c","o","n","n","e","c","t"," ","t","o"," ","M","y","S","Q","L"," ","s","e","r","v","e","r"," ","o","n"," ","'","l","o","c","a","l","h","o","s","t",":","1","0","4","5","'">>,
      <<"1","0","4","4"," ","(","4","2","0","0","0",")",":"," ","A","c","c","e","s","s"," ","d","e","n","i","e","d"," ","f","o","r"," ","u","s","e","r"," ","'","u","'","@","'","%","'"," ","t","o"," ","d","a","t","a","b","a","s","e"," ","'","d","b","1","0","4","9","'">>,
      <<"S","S","L"," ","h","a","n","d","s","h","a","k","e"," ","f","a","i","l","e","d">> }

\* the schema text get_table_info returns before any statement has run
InitialSchema == <<"u","s","e","r","s","(","i","d",","," ","n","a","m","e",")">>

-----------------------------------------------------------------------------
(* Fixed texts of app.py.                                                  *)

Greeting == <<"H","e","l","l","o","!"," ","I","'","m"," ","a"," ","S","Q","L"," ","a","s","s","i","s","t","a","n","t","."," ","C","o","n","n","e","c","t"," ","y","o","u","r"," ","d","a","t","a","b","a","s","e"," ","a","n","d"," ","a","s","k"," ","a","w","a","y",".">>

ExecErrPrefix == <<"E","r","r","o","r"," ","e","x","e","c","u","t","i","n","g"," ","S","Q","L"," ","q","u","e","r","y",":"," ">>

KeyNotFound ==
    <<"G","R","O","Q","_","A","P","I","_","K","E","Y"," ","n","o","t"," ","f","o","u","n","d","."," ","P","l","e","a","s","e"," ","s","e","t"," ","i","t"," ","i","n"," ","y","o","u","r"," ",".","e","n","v"," ","f","i","l","e"," ","o","r"," ","e","n","v","i","r","o","n","m","e","n","t"," ","v","a","r","i","a","b","l","e","s",".">>

praising_words ==
    << <<"o","k">>, <<"t","h","a","n","k"," ","y","o","u">>, <<"t","h","a","n","k","s">>, <<"g","r","e","a","t">>, <<"a","w","e","s","o","m","e">>, <<"n","i","c","e">>, <<"w","e","l","l"," ","d","o","n","e">>, <<"c","o","o","l">> >>

Welcome == <<"Y","o","u","'","r","e"," ","w","e","l","c","o","m","e","!"," ","I","'","m"," ","h","e","r","e"," ","t","o"," ","h","e","l","p","."," ">> \o <<"U+1F60A">>

KeyNotConfigured == <<"A","P","I"," ","k","e","y"," ","n","o","t"," ","c","o","n","f","i","g","u","r","e","d","."," ","P","l","e","a","s","e"," ","c","h","e","c","k"," ","y","o","u","r"," ",".","e","n","v"," ","f","i","l","e",".">>

ChainErrPrefix == <<"E","r","r","o","r"," ","i","n"," ","c","h","a","i","n"," ","i","n","v","o","c","a","t","i","o","n",":"," ">>

ConnectedMsg == <<"C","o","n","n","e","c","t","e","d"," ","t","o"," ","d","a","t","a","b","a","s","e","!">>

DbNotFoundMsg == <<"D","a","t","a","b","a","s","e"," ","n","o","t"," ","f","o","u","n","d","."," ","P","l","e","a","s","e"," ","c","h","e","c","k"," ","t","h","e"," ","d","a","t","a","b","a","s","e"," ","n","a","m","e"," ","a","n","d"," ","t","r","y"," ","a","g","a","i","n",".">>

AccessDeniedMsg == <<"A","c","c","e","s","s"," ","d","e","n","i","e","d","."," ","P","l","e","a","s","e"," ","v","e","r","i","f","y"," ","y","o","u","r"," ","u","s","e","r","n","a","m","e"," ","a","n","d"," ","p","a","s","s","w","o","r","d",".">>

CannotConnectMsg ==
    <<"C","a","n","n","o","t"," ","c","o","n","n","e","c","t"," ","t","o"," ","t","h","e"," ","d","a","t","a","b","a","s","e"," ","s","e","r","v","e","r","."," ","P","l","e","a","s","e"," ","c","h","e","c","k"," ","t","h","e"," ","h","o","s","t"," ","a","n","d"," ","p","o","r","t",".">>

ConnectionFailedMsg == <<"C","o","n","n","e","c","t","i","o","n"," ","f","a","i","l","e","d","."," ","P","l","e","a","s","e"," ","v","e","r","i","f","y"," ","y","o","u","r"," ","s","e","t","t","i","n","g","s"," ","a","n","d"," ","t","r","y"," ","a","g","a","i","n",".">>

ConnectFirst == <<"P","l","e","a","s","e"," ","c","o","n","n","e","c","t"," ","t","o"," ","a"," ","d","a","t","a","b","a","s","e"," ","i","n"," ","t","h","e"," ","s","i","d","e","b","a","r"," ","f","i","r","s","t","!">>

HandlerErrPrefix == <<"E","r","r","o","r",":"," ">>

AIMessage(content) == [role |-> "AI", content |-> content]

HumanMessage(content) == [role |-> "Human", content |-> content]

-----------------------------------------------------------------------------
(* The collaborators: the database behind a handle and the model.          *)

\* one collaborator call: which operation, on which handle, with which prompt
\* variables (NoText where the operation takes none), and how it ended
Call(op, h, sc, qn, qy, rs, out) ==
    [op |-> op, db |-> h, schema |-> sc, question |-> qn, query |-> qy,
     response |-> rs, raised |-> out.raised, val |-> out.val]

\* db.get_table_info(): the current schema text, or a failure
SchemaOutcomes(sc) == { Ok(sc), Raise(SchemaErr) }

\* db.run(query): a result, or a failure
RunOutcomes == { Ok(RunResult), Raise(DbErr) }

\* the statements whose successful execution changes the schema
IsDDL(q) ==
    \E k \in { <<"C","R","E","A","T","E">>, <<"D","R","O","P">>, <<"A","L","T","E","R">> } : StartsWith(Upper(q), k)

\* the schema text after db.run(q) ended with out
SchemaAfterRun(sc, q, out) ==
    IF ~out.raised /\ IsDDL(q) THEN sc \o <<" ","*">> ELSE sc

\* llm invocation in the SQL chain: a generated text, or a failure
GenOutcomes == { Ok(g) : g \in GenTexts } \cup { Raise(LlmErr) }

\* llm invocation in the answer chain: an answer, or a failure
SynOutcomes == { Ok(a) : a \in SynTexts } \cup { Raise(LlmErr) }

\* ChatGroq(...): the client object, or a failure of its construction
ConstructOutcomes == { Ok(NoText), Raise(ConstructErr) }

-----------------------------------------------------------------------------
(* execute_sql_and_get_response                                            *)

\* faulty variant: no try/except around validation and db.run
execute_unguarded(h, query, run) ==
    LET v == validate_sql_query(query)
    IN  IF v.raised
        THEN [res |-> Raise(v.val), calls |-> <<>>, ran |-> NoText]
        ELSE [res |-> run,
              calls |-> << Call("run", h, NoText, NoText, v.val, NoText, run) >>,
              ran |-> v.val]

\* faulty variant: the try/except covers db.run alone, not the validation
execute_validation_outside_try(h, query, run) ==
    LET v == validate_sql_query(query)
    IN  IF v.raised
        THEN [res |-> Raise(v.val), calls |-> <<>>, ran |-> NoText]
        ELSE [res |-> IF run.raised THEN Ok(ExecErrPrefix \o run.val) ELSE run,
              calls |-> << Call("run", h, NoText, NoText, v.val, NoText, run) >>,
              ran |-> v.val]

\* faulty variant: a failed db.run is tried a second time
execute_with_retry(h, query, run) ==
    LET v == validate_sql_query(query)
        attempt == Call("run", h, NoText, NoText, v.val, NoText, run)
    IN  IF v.raised
        THEN [res |-> Ok(ExecErrPrefix \o v.val), calls |-> <<>>, ran |-> NoText]
        ELSE [res |-> IF run.raised THEN Ok(ExecErrPrefix \o run.val) ELSE run,
              calls |-> IF run.raised THEN << attempt, attempt >> ELSE << attempt >>,
              ran |-> v.val]

\* faulty variant: db.run receives the raw text, validated or not
execute_raw(h, query, run) ==
    [res |-> IF run.raised THEN Ok(ExecErrPrefix \o run.val) ELSE run,
     calls |-> << Call("run", h, NoText, NoText, query, NoText, run) >>,
     ran |-> query]

\* h: the handle; query: the raw text; run: how db.run ends if it is called.
\* res: what the function returns or raises; calls: the db.run call made, if any;
\* ran: the text db.run received
execute_sql_and_get_response(h, query, run) ==
    LET v == validate_sql_query(query)
    IN  IF v.raised
        THEN [res |-> Ok(ExecErrPrefix \o v.val), calls |-> <<>>,
              ran |-> NoText]
        ELSE [res |-> IF run.raised THEN Ok(ExecErrPrefix \o run.val) ELSE run,
              calls |-> << Call("run", h, NoText, NoText, v.val, NoText, run) >>,
              ran |-> v.val]

-----------------------------------------------------------------------------
(* get_sql_chain and get_response.  A call whose outcome the environment   *)
(* decides yields the set of its possible outcomes.                        *)

\* get_sql_chain(db) up to the construction of the client: raises when the key is
\* absent or ChatGroq(...) fails; construct is how ChatGroq(...) ends
get_sql_chain(construct) ==
    IF ~api_key THEN Raise(KeyNotFound) ELSE construct

\* invoking the SQL chain: RunnablePassthrough.assign(schema=get_schema) | prompt
\* | llm | StrOutputParser().  res: the generated text or the exception
sql_chain_invoke(h, question, sc) ==
    UNION { LET fetch == Call("get_table_info", h, NoText, NoText, NoText, NoText, s)
            IN  IF s.raised
                THEN { [res |-> Raise(s.val), calls |-> << fetch >>] }
                ELSE { [res |-> g,
                        calls |-> << fetch,
                                     Call("generate", h, s.val, question, NoText, NoText, g) >>]
                       : g \in GenOutcomes }
          : s \in SchemaOutcomes(sc) }

\* the order in which the two steps of one assign(...) reach the database
Orders == {"schema_first", "run_first"}

\* .assign(schema=lambda _: db.get_table_info(), response=lambda vars:
\* execute_sql_and_get_response(db, vars["query"])): both steps are submitted to
\* a thread pool and both run to their end, in either order.
\* schema, response: the two outcomes; after: the schema text they leave behind
assign_schema_response(h, query, sc) ==
    UNION {
      LET ex    == execute_sql_and_get_response(h, query, run)
          after == IF ex.calls # <<>> THEN SchemaAfterRun(sc, ex.ran, run) ELSE sc
      IN  { LET s     == IF fetched
                         THEN Ok(IF order = "run_first" THEN after ELSE sc)
                         ELSE Raise(SchemaErr)
                fetch == Call("get_table_info", h, NoText, NoText, NoText, NoText, s)
            IN  [schema |-> s, response |-> ex.res, after |-> after,
                 calls |-> IF order = "schema_first"
                           THEN << fetch >> \o ex.calls
                           ELSE ex.calls \o << fetch >>]
            : fetched \in BOOLEAN, order \in Orders }
      : run \in RunOutcomes }

\* the Executor has not been entered
NoExec == [called |-> FALSE, query |-> NoText, res |-> Ok(NoText)]

Exec(query, res) == [called |-> TRUE, query |-> query, res |-> res]

\* faulty variant: the SQL prompt's question carries an earlier message of the
\* history along with the current one
chain_invoke_reading_history(h, question, chat_hist, sc) ==
    LET asked == IF Len(chat_hist) >= 4
                 THEN chat_hist[2].content \o question
                 ELSE question
    IN
    UNION { IF g.res.raised
            THEN { [res |-> Raise(g.res.val), calls |-> g.calls, schema |-> sc,
                    exec |-> NoExec] }
            ELSE UNION {
                   LET exec == Exec(g.res.val, p.response)
                   IN  IF p.schema.raised
                       THEN { [res |-> Raise(p.schema.val), calls |-> g.calls \o p.calls,
                               schema |-> p.after, exec |-> exec] }
                       ELSE { [res |-> a,
                               calls |-> g.calls \o p.calls \o
                                   << Call("answer", h, p.schema.val, question,
                                           g.res.val, p.response.val, a) >>,
                               schema |-> p.after, exec |-> exec]
                              : a \in SynOutcomes }
                   : p \in assign_schema_response(h, g.res.val, sc) }
          : g \in sql_chain_invoke(h, asked, sc) }

\* faulty variant: the chain goes on to the Executor and Synthesis when the SQL
\* chain has raised, with the error text standing in for the query
chain_invoke_past_failed_generation(h, question, chat_hist, sc) ==
    UNION { UNION {
              LET exec == Exec(g.res.val, p.response)
              IN  IF p.schema.raised
                  THEN { [res |-> Raise(p.schema.val), calls |-> g.calls \o p.calls,
                          schema |-> p.after, exec |-> exec] }
                  ELSE { [res |-> a,
                          calls |-> g.calls \o p.calls \o
                              << Call("answer", h, p.schema.val, question,
                                      g.res.val, p.response.val, a) >>,
                          schema |-> p.after, exec |-> exec]
                         : a \in SynOutcomes }
              : p \in assign_schema_response(h, g.res.val, sc) }
          : g \in sql_chain_invoke(h, question, sc) }

\* chain.invoke({"question": user_query, "chat_history": chat_hist}): query from
\* the SQL chain, then schema and response, then prompt | llm | StrOutputParser().
\* The prompts take schema, question, query and response; chat_hist is carried in
\* the input and no step reads it.
chain_invoke(h, question, chat_hist, sc) ==
    UNION { IF g.res.raised
            THEN { [res |-> Raise(g.res.val), calls |-> g.calls, schema |-> sc,
                    exec |-> NoExec] }
            ELSE UNION {
                   LET exec == Exec(g.res.val, p.response)
                   IN  IF p.schema.raised
                       THEN { [res |-> Raise(p.schema.val), calls |-> g.calls \o p.calls,
                               schema |-> p.after, exec |-> exec] }
                       ELSE IF p.response.raised
                       THEN { [res |-> Raise(p.response.val), calls |-> g.calls \o p.calls,
                               schema |-> p.after, exec |-> exec] }
                       ELSE { [res |-> a,
                               calls |-> g.calls \o p.calls \o
                                   << Call("answer", h, p.schema.val, question,
                                           g.res.val, p.response.val, a) >>,
                               schema |-> p.after, exec |-> exec]
                              : a \in SynOutcomes }
                   : p \in assign_schema_response(h, g.res.val, sc) }
          : g \in sql_chain_invoke(h, question, sc) }

\* an outcome of get_response that reached no collaborator
Direct(res, sc) == [res |-> res, calls |-> <<>>, schema |-> sc, exec |-> NoExec]

\* any(word in user_query.lower() for word in praising_words)
IsPraise(user_query) ==
    \E w \in 1..Len(praising_words) : Contains(Lower(user_query), praising_words[w])

\* faulty variant: the key is tested before the praising words
get_response_key_first(user_query, h, chat_hist, sc) ==
    IF ~api_key THEN { Direct(Ok(KeyNotConfigured), sc) }
    ELSE IF IsPraise(user_query) THEN { Direct(Ok(Welcome), sc) }
    ELSE { IF r.res.raised THEN [r EXCEPT !.res = Ok(ChainErrPrefix \o r.res.val)] ELSE r
           : r \in chain_invoke(h, user_query, chat_hist, sc) }

\* faulty variant: no test of the key in get_response, so get_sql_chain raises
get_response_no_key_test(user_query, h, chat_hist, sc) ==
    IF IsPraise(user_query) THEN { Direct(Ok(Welcome), sc) }
    ELSE IF get_sql_chain(Ok(NoText)).raised
    THEN { Direct(Raise(get_sql_chain(Ok(NoText)).val), sc) }
    ELSE { IF r.res.raised THEN [r EXCEPT !.res = Ok(ChainErrPrefix \o r.res.val)] ELSE r
           : r \in chain_invoke(h, user_query, chat_hist, sc) }

\* faulty variant: chain.invoke outside any try/except
get_response_no_try(user_query, h, chat_hist, sc) ==
    IF IsPraise(user_query) THEN { Direct(Ok(Welcome), sc) }
    ELSE IF ~api_key THEN { Direct(Ok(KeyNotConfigured), sc) }
    ELSE chain_invoke(h, user_query, chat_hist, sc)

\* get_response(user_query, db, chat_history), with sc the schema text behind db.
\* res: the returned reply, or the exception that leaves the function;
\* calls, schema, exec: what the run did on the way
get_response(user_query, h, chat_hist, sc) ==
    IF IsPraise(user_query) THEN { Direct(Ok(Welcome), sc) }
    ELSE IF ~api_key THEN { Direct(Ok(KeyNotConfigured), sc) }
    ELSE UNION {
           IF get_sql_chain(c1).raised
           THEN { Direct(Raise(get_sql_chain(c1).val), sc) }
           ELSE IF c2.raised
           THEN { Direct(Raise(c2.val), sc) }
           ELSE { IF r.res.raised
                  THEN [r EXCEPT !.res = Ok(ChainErrPrefix \o r.res.val)]
                  ELSE r
                  : r \in chain_invoke(h, user_query, chat_hist, sc) }
           : c1 \in ConstructOutcomes, c2 \in ConstructOutcomes }

-----------------------------------------------------------------------------
(* The Connect button handler.                                             *)

\* the message st.error shows for str(e) of a failed init_database
connect_error_message(error_message) ==
    IF Contains(error_message, <<"1","0","4","9">>) \/ Contains(error_message, <<"U","n","k","n","o","w","n"," ","d","a","t","a","b","a","s","e">>)
    THEN DbNotFoundMsg
    ELSE IF Contains(error_message, <<"1","0","4","5">>) \/ Contains(error_message, <<"A","c","c","e","s","s"," ","d","e","n","i","e","d">>)
    THEN AccessDeniedMsg
    ELSE IF Contains(error_message, <<"2","0","0","3">>) \/ Contains(error_message, <<"C","a","n","'","t"," ","c","o","n","n","e","c","t">>)
    THEN CannotConnectMsg
    ELSE ConnectionFailedMsg

Shown(kind, text) == [kind |-> kind, text |-> text]

\* the record of one handler run: its input, the handle stored when it began,
\* the reply appended to the history (NoText if none), whether an exception
\* reached the handler's except clause, and the Executor's call
Handled(op, input, before, reply, raised, exec) ==
    [op |-> op, input |-> input, db |-> before, reply |-> reply,
     raised |-> raised, exec |-> exec]

\* faulty variant: a failed attempt drops the stored handle
Connect_dropping_handle ==
    \/ \E h \in Handles :
          /\ db' = h
          /\ shown' = << Shown("success", ConnectedMsg) >>
          /\ calls' = <<>>
          /\ last' = Handled("connect", NoText, db, NoText, FALSE, NoExec)
          /\ UNCHANGED <<chat_history, api_key, schema, vin, vout>>
    \/ \E e \in ConnErrors :
          /\ db' = NoDb
          /\ shown' = << Shown("error", connect_error_message(e)) >>
          /\ calls' = <<>>
          /\ last' = Handled("connect", e, db, NoText, TRUE, NoExec)
          /\ UNCHANGED <<chat_history, api_key, schema, vin, vout>>

\* faulty variant: a successful attempt starts the conversation afresh
Connect_resetting_history ==
    \/ \E h \in Handles :
          /\ db' = h
          /\ chat_history' = << AIMessage(Greeting) >>
          /\ shown' = << Shown("success", ConnectedMsg) >>
          /\ calls' = <<>>
          /\ last' = Handled("connect", NoText, db, NoText, FALSE, NoExec)
          /\ UNCHANGED <<api_key, schema, vin, vout>>
    \/ \E e \in ConnErrors :
          /\ shown' = << Shown("error", connect_error_message(e)) >>
          /\ calls' = <<>>
          /\ last' = Handled("connect", e, db, NoText, TRUE, NoExec)
          /\ UNCHANGED <<db, chat_history, api_key, schema, vin, vout>>

Connect ==
    \/ \E h \in Handles :
          /\ db' = h
          /\ shown' = << Shown("success", ConnectedMsg) >>
          /\ calls' = <<>>
          /\ last' = Handled("connect", NoText, db, NoText, FALSE, NoExec)
          /\ UNCHANGED <<chat_history, api_key, schema, vin, vout>>
    \/ \E e \in ConnErrors :
          /\ shown' = << Shown("error", connect_error_message(e)) >>
          /\ calls' = <<>>
          /\ last' = Handled("connect", e, db, NoText, TRUE, NoExec)
          /\ UNCHANGED <<db, chat_history, api_key, schema, vin, vout>>

-----------------------------------------------------------------------------
(* The chat input handler.                                                 *)

Turns == Cardinality({ i \in 1..Len(chat_history) : chat_history[i].role = "Human" })

\* faulty variant: the praising-word short-circuit ahead of the connection check
answer_praise_first(user_query, session_db, hist) ==
    IF IsPraise(user_query)
    THEN { [res |-> Ok(Welcome), kind |-> "markdown", calls |-> <<>>,
            schema |-> NoText, exec |-> NoExec] }
    ELSE IF session_db = NoDb
    THEN { [res |-> Ok(ConnectFirst), kind |-> "warning", calls |-> <<>>,
            schema |-> NoText, exec |-> NoExec] }
    ELSE { [res |-> r.res, kind |-> IF r.res.raised THEN "error" ELSE "markdown",
            calls |-> r.calls, schema |-> r.schema, exec |-> r.exec]
           : r \in get_response(user_query, session_db, hist, schema[session_db]) }

\* the body of with st.chat_message("AI"): the warning without a connection,
\* else get_response inside try/except.  res: the reply appended to the history,
\* or the exception the except clause reports; kind: how it is rendered
answer(user_query, session_db, hist) ==
    IF session_db = NoDb
    THEN { [res |-> Ok(ConnectFirst), kind |-> "warning", calls |-> <<>>,
            schema |-> NoText, exec |-> NoExec] }
    ELSE { [res |-> r.res, kind |-> IF r.res.raised THEN "error" ELSE "markdown",
            calls |-> r.calls, schema |-> r.schema, exec |-> r.exec]
           : r \in get_response(user_query, session_db, hist, schema[session_db]) }

ChatInput ==
    \E user_query \in UserQueries :
       /\ Turns < MaxTurns
       /\ LET hist == Append(chat_history, HumanMessage(user_query))
          IN  \E r \in answer(user_query, db, hist) :
                 /\ chat_history' = IF r.res.raised
                                    THEN hist
                                    ELSE Append(hist, AIMessage(r.res.val))
                 /\ shown' = << Shown("markdown", user_query),
                                Shown(r.kind, IF r.res.raised
                                              THEN HandlerErrPrefix \o r.res.val
                                              ELSE r.res.val) >>
                 /\ calls' = r.calls
                 /\ schema' = IF r.calls = <<>>
                              THEN schema
                              ELSE [schema EXCEPT ![db] = r.schema]
                 /\ last' = Handled("chat", user_query, db,
                                    IF r.res.raised THEN NoText ELSE r.res.val,
                                    r.res.raised, r.exec)
                 /\ UNCHANGED <<db, api_key, vin, vout>>

-----------------------------------------------------------------------------
(* The session.                                                            *)

NoOut == [op |-> "none", fence |-> NoText, res |-> Raise(NoText)]

Init ==
    /\ db = NoDb
    /\ chat_history = << AIMessage(Greeting) >>
    /\ api_key \in BOOLEAN
    /\ shown = <<>>
    /\ calls = <<>>
    /\ schema = [h \in Handles |-> InitialSchema]
    /\ last = Handled("init", NoText, NoDb, NoText, FALSE, NoExec)
    /\ vin = NoText
    /\ vout = NoOut

Next == Connect \/ ChatInput

Spec == Init /\ [][Next]_vars

-----------------------------------------------------------------------------
(* The validator on its own: raw texts assembled from pieces.              *)

Pieces ==
    { <<"GRAVE","GRAVE","GRAVE","s","q","l">>, <<"GRAVE","GRAVE","GRAVE">>, <<"GRAVE">>, <<" ">>, <<"\n">>, <<"s","q","l">>, <<"S","E","L","E","C">>,
      <<"S","E","L","E","C","T">>, <<"s","e","l","e","c","t">>, <<"I","n","s","e","r","t">>, <<"u","p","d","a","t","e">>, <<"D","E","L","E","T","E">>, <<"c","r","e","a","t","e">>, <<"D","r","o","p">>,
      <<"a","l","t","e","r">>, <<"W","i","T","h">> }

RECURSIVE TextsOf(_)
TextsOf(n) ==
    IF n = 0 THEN { <<>> }
    ELSE LET shorter == TextsOf(n - 1)
         IN  shorter \cup { s \o p : s \in shorter, p \in Pieces }

\* the opening lines of a markdown code fence: no tag, and two language tags
FenceOpenings == { <<"GRAVE","GRAVE","GRAVE","\n">>, <<"GRAVE","GRAVE","GRAVE","s","q","l","\n">>, <<"GRAVE","GRAVE","GRAVE","S","Q","L","\n">> }

FenceClosing == <<"\n","GRAVE","GRAVE","GRAVE">>

Fenced(opening, q) == opening \o q \o FenceClosing

InitValidator ==
    /\ db = NoDb
    /\ chat_history = << AIMessage(Greeting) >>
    /\ api_key = TRUE
    /\ shown = <<>>
    /\ calls = <<>>
    /\ schema = [h \in Handles |-> InitialSchema]
    /\ last = Handled("init", NoText, NoDb, NoText, FALSE, NoExec)
    /\ vin \in TextsOf(MaxPieces)
    /\ vout = NoOut

\* validate_sql_query(vin)
Validate ==
    /\ vout = NoOut
    /\ vout' = [op |-> "plain", fence |-> NoText, res |-> validate_sql_query(vin)]
    /\ UNCHANGED <<db, chat_history, api_key, shown, calls, schema, last, vin>>

\* validate_sql_query on vin wrapped in a code fence
ValidateFenced ==
    \E opening \in FenceOpenings :
       /\ vout = NoOut
       /\ vout' = [op |-> "fenced", fence |-> opening,
                   res |-> validate_sql_query(Fenced(opening, vin))]
       /\ UNCHANGED <<db, chat_history, api_key, shown, calls, schema, last, vin>>

\* validate_sql_query(validate_sql_query(vin)), where the inner call returns
ValidateTwice ==
    /\ vout = NoOut
    /\ ~validate_sql_query(vin).raised
    /\ vout' = [op |-> "twice", fence |-> NoText,
                res |-> validate_sql_query(validate_sql_query(vin).val)]
    /\ UNCHANGED <<db, chat_history, api_key, shown, calls, schema, last, vin>>

NextValidator == Validate \/ ValidateFenced \/ ValidateTwice

ValidatorSpec == InitValidator /\ [][NextValidator]_vars

-----------------------------------------------------------------------------
(* Properties of the validator (checked under ValidatorSpec).              *)

\* the allow-list as the contract states it
AllowList ==
    { <<"S","E","L","E","C","T">>, <<"I","N","S","E","R","T">>, <<"U","P","D","A","T","E">>, <<"D","E","L","E","T","E">>, <<"C","R","E","A","T","E">>, <<"D","R","O","P">>, <<"A","L","T","E","R">>, <<"W","I","T","H">> }

\* text with its surrounding whitespace trimmed, the code-fence markers (the
\* tagged marker and the bare marker) removed, and trimmed again
CleanedText(text) ==
    Strip(Replace(Replace(Strip(text), <<"GRAVE","GRAVE","GRAVE","s","q","l">>, <<>>), <<"GRAVE","GRAVE","GRAVE">>, <<>>))

\* c begins with keyword k, letter case disregarded
BeginsWith(c, k) ==
    /\ Len(c) >= Len(k)
    /\ \A i \in 1..Len(k) : UpperCh(c[i]) = UpperCh(k[i])

\* C1: for every input text, with c the text trimmed, stripped of code-fence
\* markers and trimmed again: if c begins, case-insensitively, with a keyword
\* of the allow-list, validate_sql_query returns exactly c; otherwise it raises.
C1_ValidatorContract ==
    vout.op = "plain" =>
        LET c == CleanedText(vin)
        IN  IF \E k \in AllowList : BeginsWith(c, k)
            THEN vout.res = Ok(c)
            ELSE vout.res.raised

\* a fenced text with a lower-case keyword was accepted and came back cleaned
C1_Witness ==
    /\ vout.op = "plain"
    /\ ~vout.res.raised
    /\ Contains(vin, <<"GRAVE","GRAVE","GRAVE","s","q","l">>)
    /\ vout.res.val # vin
    /\ vout.res.val # Upper(vout.res.val)

\* C10: for every text the validator accepts unfenced, validating it wrapped in
\* a markdown code fence, with or without a language tag, returns the same
\* cleaned text, and validating the validator's output returns it unchanged.
C10_FenceIdempotent ==
    /\ vout.op = "fenced" /\ ~validate_sql_query(vin).raised
           => vout.res = validate_sql_query(vin)
    /\ vout.op = "twice" => vout.res = validate_sql_query(vin)

\* C10 for the fences whose opening line the validator removes whole: no
\* language tag, or the lower-case tag sql
C10_KnownFences ==
    /\ vout.op = "fenced" /\ vout.fence \in { <<"GRAVE","GRAVE","GRAVE","\n">>, <<"GRAVE","GRAVE","GRAVE","s","q","l","\n">> }
         /\ ~validate_sql_query(vin).raised
           => vout.res = validate_sql_query(vin)
    /\ vout.op = "twice" => vout.res = validate_sql_query(vin)

-----------------------------------------------------------------------------
(* Properties of the session (checked under Spec).                         *)

\* the last handler run handled a user message
Chat == last.op = "chat"

\* the positions in calls of the operation op
CallsOf(op) == { i \in 1..Len(calls) : calls[i].op = op }

\* the last two history entries are the message just handled and the reply
RepliedWith(reply) ==
    /\ Len(chat_history) >= 2
    /\ chat_history[Len(chat_history) - 1] = HumanMessage(last.input)
    /\ chat_history[Len(chat_history)] = AIMessage(reply)
    /\ last.reply = reply
    /\ ~last.raised

\* C2: db.run is only ever called with a text validate_sql_query accepted in
\* the same execute call, the text it receives is the validator's cleaned
\* output, never the raw generated text, and when validation fails db.run is
\* not called at all.
C2_RunOnlyValidated ==
    /\ \A i \in CallsOf("run") :
          /\ last.exec.called
          /\ ~validate_sql_query(last.exec.query).raised
          /\ calls[i].query = CleanedText(last.exec.query)
    /\ last.exec.called /\ validate_sql_query(last.exec.query).raised
          => CallsOf("run") = {}

\* db.run received a cleaned text that differs from the raw generated text
C2_Witness ==
    \E i \in CallsOf("run") :
       /\ calls[i].query # last.exec.query
       /\ Contains(last.exec.query, <<"GRAVE","GRAVE","GRAVE">>)

\* C3: execute_sql_and_get_response never raises: whatever the input text and
\* however db.run ends, it returns a value to its caller.
C3_ExecutorNeverRaises == last.exec.called => ~last.exec.res.raised

\* db.run threw and the Executor returned the error as text
C3_Witness ==
    /\ last.exec.called
    /\ \E i \in CallsOf("run") : calls[i].raised
    /\ last.exec.res = Ok(ExecErrPrefix \o DbErr)

\* the acknowledgement vocabulary as the contract lists it
AckWords ==
    { <<"o","k">>, <<"t","h","a","n","k"," ","y","o","u">>, <<"t","h","a","n","k","s">>, <<"g","r","e","a","t">>, <<"a","w","e","s","o","m","e">>, <<"n","i","c","e">>, <<"w","e","l","l"," ","d","o","n","e">>, <<"c","o","o","l">> }

IsAck(text) == \E w \in AckWords : Contains(Lower(text), w)

\* C4: with a connection handle stored, a message whose lower-cased text
\* contains an acknowledgement word gets the canned reply, and handling it
\* calls neither Generation, the schema fetch, the Executor nor Synthesis,
\* with or without a model credential.
C4_AckShortCircuit ==
    Chat /\ last.db # NoDb /\ IsAck(last.input) =>
        /\ RepliedWith(Welcome)
        /\ calls = <<>>
        /\ ~last.exec.called

\* an acknowledgement in upper case inside a longer word, answered without a
\* credential
C4_Witness ==
    /\ Chat /\ last.db # NoDb /\ ~api_key
    /\ last.input = <<"L","i","s","t"," ","t","h","e"," ","B","O","O","K","S">>
    /\ last.reply = Welcome

\* C5: without a stored connection handle every message, acknowledgements
\* included, yields the connect-first warning, which is appended to the
\* history as the AI reply, and no pipeline stage is invoked.
C5_NoConnectionWarning ==
    Chat /\ last.db = NoDb =>
        /\ RepliedWith(ConnectFirst)
        /\ shown[Len(shown)] = Shown("warning", ConnectFirst)
        /\ calls = <<>>
        /\ ~last.exec.called

\* an acknowledgement sent before any connection got the warning
C5_Witness ==
    /\ Chat /\ last.db = NoDb /\ IsAck(last.input)
    /\ chat_history[Len(chat_history)] = AIMessage(ConnectFirst)

\* the Generation stage returned a text the validator rejects
Rejected == last.exec.called /\ validate_sql_query(last.exec.query).raised

\* the database rejected the query at run time
RunFailed == \E i \in CallsOf("run") : calls[i].raised

\* the schema fetch dispatched together with the Executor returned
SecondFetchReturned ==
    \E i \in CallsOf("get_table_info") : i > 1 /\ ~calls[i].raised

\* C6: when the Generation stage returns a text the validator rejects, the
\* Executor returns an error text containing "Invalid SQL query generated", the
\* pipeline does not abort: the Synthesis stage is invoked with that error text
\* as its result input and its output becomes the reply; the same holds when
\* the database rejects an accepted query at run time.  (The schema fetch that
\* runs beside the Executor and the Synthesis model call are collaborator calls
\* that can fail on their own; the statement is about what the Executor's
\* failure does, so Synthesis is required once that fetch has returned, and
\* the reply once the Synthesis call has returned.)
C6_ExecutorErrorFedForward ==
    Chat /\ (Rejected \/ RunFailed) =>
        /\ ~last.exec.res.raised
        /\ Rejected => Contains(last.exec.res.val, <<"I","n","v","a","l","i","d"," ","S","Q","L"," ","q","u","e","r","y"," ","g","e","n","e","r","a","t","e","d">>)
        /\ \A i \in CallsOf("run") :
              calls[i].raised => last.exec.res.val = ExecErrPrefix \o calls[i].val
        /\ SecondFetchReturned =>
              \E i \in CallsOf("answer") :
                 /\ i = Len(calls)
                 /\ calls[i].response = last.exec.res.val
                 /\ ~calls[i].raised => RepliedWith(calls[i].val)

\* a fenced non-SQL sentence was generated, and the Synthesis output, computed
\* from the Executor's error text, became the reply
C6_Witness ==
    /\ Chat /\ Rejected
    /\ \E i \in CallsOf("answer") :
          /\ Contains(calls[i].response, <<"I","n","v","a","l","i","d"," ","S","Q","L"," ","q","u","e","r","y"," ","g","e","n","e","r","a","t","e","d">>)
          /\ ~calls[i].raised
          /\ chat_history[Len(chat_history)] = AIMessage(calls[i].val)

\* the pipeline position of a call: the SQL chain's schema fetch, the
\* Generation model call, the Executor's db.run and the schema fetch beside
\* it, the Synthesis model call
Stage(i) ==
    IF calls[i].op = "get_table_info" THEN (IF i = 1 THEN 1 ELSE 3)
    ELSE IF calls[i].op = "generate" THEN 2
    ELSE IF calls[i].op = "run" THEN 3
    ELSE 4

\* the calls whose exception the chain lets through
Thrown ==
    { i \in 1..Len(calls) :
        calls[i].raised /\ calls[i].op \in {"get_table_info", "generate", "answer"} }

\* C7: when the Generation model call, a schema fetch or the Synthesis model
\* call throws, the exception is caught once at the orchestrator boundary: the
\* reply is "Error in chain invocation: <details>", it is appended to the
\* history as the AI message, no later stage runs for that message, and the
\* session goes on to handle further messages.
C7_ChainErrorCaught ==
    Chat =>
        \A i \in Thrown :
           /\ RepliedWith(ChainErrPrefix \o calls[i].val)
           /\ \A j \in 1..Len(calls) : Stage(j) <= Stage(i)
           /\ Thrown = {i}

\* a first message ended in the chain error reply, and the next message was
\* then handled through to a synthesized answer
C7_Witness ==
    /\ Chat /\ Len(chat_history) = 5
    /\ chat_history[3] = AIMessage(ChainErrPrefix \o LlmErr)
    /\ CallsOf("answer") # {}
    /\ \E a \in SynTexts : chat_history[5] = AIMessage(a)

\* C8: on a failed Connect an error containing "Unknown database" yields the
\* database-not-found message, one containing "Access denied" the access-denied
\* message, one containing "Can't connect" the cannot-reach-server message;
\* the three messages are pairwise distinct and each failed Connect shows
\* exactly one message, for every error text.
C8_ConnectErrorClassified ==
    /\ DbNotFoundMsg # AccessDeniedMsg
    /\ DbNotFoundMsg # CannotConnectMsg
    /\ AccessDeniedMsg # CannotConnectMsg
    /\ last.op = "connect" /\ last.raised =>
          /\ Len(shown) = 1
          /\ shown[1].kind = "error"
          /\ Contains(last.input, <<"U","n","k","n","o","w","n"," ","d","a","t","a","b","a","s","e">>) => shown[1].text = DbNotFoundMsg
          /\ Contains(last.input, <<"A","c","c","e","s","s"," ","d","e","n","i","e","d">>) => shown[1].text = AccessDeniedMsg
          /\ Contains(last.input, <<"C","a","n","'","t"," ","c","o","n","n","e","c","t">>) => shown[1].text = CannotConnectMsg

\* C9: with the credential absent, a non-acknowledgement question on a
\* connected session gets the configuration failure as its reply, before any
\* call to the model collaborator: no Generation, Execution or Synthesis call
\* happens for that message.
C9_MissingKeySurfaced ==
    Chat /\ last.db # NoDb /\ ~api_key /\ ~IsAck(last.input) =>
        /\ RepliedWith(KeyNotConfigured)
        /\ calls = <<>>
        /\ ~last.exec.called

\* a question asked on a connected session without a credential
C9_Witness ==
    /\ Chat /\ last.db # NoDb /\ ~api_key /\ ~IsAck(last.input)
    /\ chat_history[Len(chat_history)] = AIMessage(KeyNotConfigured)

-----------------------------------------------------------------------------
(* Properties of whole interactions (checked under Spec).                  *)

\* C11: every handled message, on every path (no connection, acknowledgement,
\* missing credential, full pipeline, any failure, one raised while the
\* pipeline is being constructed included), ends with exactly one AI message
\* appended directly after its Human entry, so the history is the greeting
\* followed by strictly alternating Human, AI entries.
C11_OneReplyPerMessage ==
    /\ chat_history[1] = AIMessage(Greeting)
    /\ \A i \in 2..Len(chat_history) :
          chat_history[i].role = (IF i % 2 = 0 THEN "Human" ELSE "AI")
    /\ Chat => /\ Len(chat_history) % 2 = 1
               /\ chat_history[Len(chat_history) - 1] = HumanMessage(last.input)

\* the Generation model call that returned the text the Executor was given
GeneratedBefore(i) ==
    \E g \in CallsOf("generate") :
       /\ g < i
       /\ ~calls[g].raised
       /\ last.exec.called
       /\ last.exec.query = calls[g].val

\* C12: in every pipeline run the stages occur in the order Generation,
\* Validator, Executor, Synthesis: the Executor starts only after Generation
\* has returned the query text, Synthesis is invoked only after a generated
\* query and an execution result (data or error text) for that same query
\* exist, and never for a message whose Generation call failed.
C12_StageOrder ==
    Chat =>
        /\ last.exec.called => GeneratedBefore(Len(calls) + 1)
        /\ \A r \in CallsOf("run") :
              /\ GeneratedBefore(r)
              /\ validate_sql_query(last.exec.query) = Ok(calls[r].query)
        /\ \A a \in CallsOf("answer") :
              /\ GeneratedBefore(a)
              /\ calls[a].query = last.exec.query
              /\ ~last.exec.res.raised
              /\ calls[a].response = last.exec.res.val
              /\ \A r \in CallsOf("run") : r < a
        /\ (\E g \in CallsOf("generate") : calls[g].raised)
              => /\ ~last.exec.called
                 /\ CallsOf("run") = {}
                 /\ CallsOf("answer") = {}

\* a full run: Generation, then db.run on the validated text, then Synthesis
\* with the run's result
C12_Witness ==
    /\ Chat
    /\ \E g \in CallsOf("generate"), r \in CallsOf("run"), a \in CallsOf("answer") :
          /\ g < r /\ r < a
          /\ ~calls[r].raised
          /\ calls[a].response = calls[r].val

\* a stage of the last message failed: a collaborator call threw, or the
\* validator rejected the generated text
StageFailed == (\E i \in 1..Len(calls) : calls[i].raised) \/ Rejected

\* C13: no retries: while one message is handled the Generation model call,
\* db.run and the Synthesis model call each happen at most once; after a
\* failure at any stage no stage is invoked again for that message, and the
\* failure is reported in exactly one reply.
C13_NoRetries ==
    Chat =>
        /\ Cardinality(CallsOf("generate")) <= 1
        /\ Cardinality(CallsOf("run")) <= 1
        /\ Cardinality(CallsOf("answer")) <= 1
        /\ \A i \in 1..Len(calls) :
              calls[i].raised =>
                 \A j \in 1..Len(calls) : j > i => calls[j].op # calls[i].op
        /\ StageFailed => RepliedWith(last.reply)

\* db.run threw, was not called again, and the message got its one reply
C13_Witness ==
    /\ Chat
    /\ \E r \in CallsOf("run") : calls[r].raised
    /\ Cardinality(CallsOf("run")) = 1
    /\ chat_history[Len(chat_history)].role = "AI"
    /\ chat_history[Len(chat_history) - 1] = HumanMessage(last.input)

\* C14: for every Generation output the validator accepts, fenced or unfenced,
\* the query text embedded in the Synthesis prompt is the validated text the
\* Executor ran against the database.
C14_PromptQueryIsExecuted ==
    Chat =>
        \A a \in CallsOf("answer"), r \in CallsOf("run") :
           calls[a].query = calls[r].query

\* what one step may do to the session around a failed Connect
KeepsSession ==
    /\ last'.op = "connect" /\ last'.raised
          => /\ db' = db
             /\ chat_history' = chat_history
             /\ schema' = schema
    /\ last'.op = "connect" /\ ~last'.raised /\ last' # last => db' \in Handles
    /\ last'.op = "chat" /\ chat_history' # chat_history
          => /\ db' = db
             /\ last'.db = db
             /\ \A i \in 1..Len(calls') : calls'[i].db = db
             /\ db = NoDb => last'.reply = ConnectFirst
    /\ db' \in Handles \cup {NoDb}

\* C15: a failed Connect changes no session state: the stored handle, if any,
\* and the history stay as they were, later questions run against the stored
\* handle (or get the connect-first warning if there was none), a later
\* Connect can still succeed and replace the handle, and the session holds at
\* most one handle at any time.
C15_FailedConnectKeepsSession == [][KeepsSession]_vars

\* a Connect failed on a session that holds a handle and a conversation
C15_Witness ==
    /\ last.op = "connect" /\ last.raised
    /\ db \in Handles
    /\ last.db = db
    /\ Len(chat_history) >= 3

\* one step only adds entries at the end of the history
AppendsOnly ==
    /\ Len(chat_history') >= Len(chat_history)
    /\ SubSeq(chat_history', 1, Len(chat_history)) = chat_history

\* C16: the history is append-only: over any sequence of Connect actions and
\* user messages every step leaves the existing entries, role and content, in
\* order, as a prefix of the new history; entries are only added at the end.
C16_HistoryAppendOnly == [][AppendsOnly]_vars

\* a Connect, successful or not, on a session whose history holds two turns
C16_Witness ==
    /\ last.op = "connect"
    /\ Len(chat_history) = 5

\* C17: within one pipeline run the schema text given to the Synthesis stage
\* equals the schema text given to the Generation stage, for every generated
\* statement of the allow-list (CREATE, DROP and ALTER included) and for every
\* interleaving of the second schema fetch with the query execution.
C17_SameSchemaBothStages ==
    Chat =>
        \A g \in CallsOf("generate"), a \in CallsOf("answer") :
           calls[a].schema = calls[g].schema

\* where C17 stops holding: the two schema texts differ only when db.run
\* executed a schema-changing statement before the second fetch read the schema
C17_DiffersOnlyAfterDDL ==
    Chat =>
        \A g \in CallsOf("generate"), a \in CallsOf("answer") :
           calls[a].schema # calls[g].schema =>
              \E r \in CallsOf("run"), f \in CallsOf("get_table_info") :
                 /\ g < r /\ r < f /\ f < a
                 /\ ~calls[r].raised
                 /\ IsDDL(calls[r].query)
                 /\ calls[a].schema = SchemaAfterRun(calls[g].schema, calls[r].query, Ok(calls[r].val))

\* a history other than the session's own: the greeting and the message alone
FreshHistory(user_query) == << AIMessage(Greeting), HumanMessage(user_query) >>

\* the schema text behind the handle when the last message arrived
SchemaBefore ==
    IF CallsOf("generate") # {}
    THEN calls[CHOOSE g \in CallsOf("generate") : TRUE].schema
    ELSE schema[last.db]

\* C18: the reply to a question does not depend on the conversation history:
\* with the same connection state, credential, model and database behaviour
\* and question, two different prior histories lead to identical prompts for
\* Generation and Synthesis, the same query run and the same reply.  (What the
\* session did with its own history, the calls with their prompts and
\* outcomes, the text run and the reply, is what get_response does with a
\* fresh history when the model and the database behave the same.)
C18_ReplyIgnoresHistory ==
    Chat /\ last.db # NoDb =>
        /\ \E r \in get_response(last.input, last.db, FreshHistory(last.input),
                                 SchemaBefore) :
              /\ r.calls = calls
              /\ r.exec = last.exec
              /\ r.schema = schema[last.db]
              /\ r.res.raised = last.raised
              /\ ~last.raised => r.res.val = last.reply
        /\ \A i \in 1..Len(calls) : calls[i].question \in {NoText, last.input}

\* a second, different question was answered through the full pipeline
C18_Witness ==
    /\ Chat /\ last.db # NoDb
    /\ Len(chat_history) = 5
    /\ chat_history[2].content # last.input
    /\ CallsOf("answer") # {}

=============================================================================
